---- MODULE Spec2Model ----
(***************************************************************************)
(* Bio.Phylo.PAML.codeml: the CODEML control-file codec (write_ctl_file,   *)
(* read_ctl_file, print_options, _set_rel_paths) of class Codeml and the   *)
(* module-level results reader read().                                     *)
(*                                                                         *)
(* Text is a sequence of symbols.  A symbol is one character where the     *)
(* code looks at characters (blank, tab, "=", "*", ".", sign, digit, "e")  *)
(* and otherwise a run of letters that holds none of those characters      *)
(* ("model", "NSsites", "x", "dat/jones").                                 *)
(***************************************************************************)
EXTENDS Integers, Sequences, FiniteSets, TLC

\* ---------------------------------------------------------------- text

Digits == <<"0", "1", "2", "3", "4", "5", "6", "7", "8", "9">>

DigitSet == {Digits[i] : i \in 1..Len(Digits)}

Whitespace == {" ", "\t"}

DigitVal(c) == (CHOOSE i \in 1..Len(Digits) : Digits[i] = c) - 1

Repeat(n, c) == [i \in 1..n |-> c]

\* str.strip(): leading and trailing whitespace removed.
RECURSIVE LStrip(_)
LStrip(s) ==
    IF s # <<>> /\ Head(s) \in Whitespace THEN LStrip(Tail(s)) ELSE s

RECURSIVE RStrip(_)
RStrip(s) ==
    IF s # <<>> /\ s[Len(s)] \in Whitespace
    THEN RStrip(SubSeq(s, 1, Len(s) - 1))
    ELSE s

Strip(s) == RStrip(LStrip(s))

\* The index of the first c in s, 0 when there is none.
IndexOf(s, c) ==
    IF \E i \in 1..Len(s) : s[i] = c
    THEN CHOOSE i \in 1..Len(s) : s[i] = c /\ \A j \in 1..(i - 1) : s[j] # c
    ELSE 0

Contains(s, c) == \E i \in 1..Len(s) : s[i] = c

\* str.partition(c)[0]: the text before the first c, all of it without c.
PartitionHead(s, c) ==
    IF Contains(s, c) THEN SubSeq(s, 1, IndexOf(s, c) - 1) ELSE s

\* str.split(c) with an explicit separator: every occurrence of c cuts,
\* empty pieces are kept, so n separators give n + 1 pieces.
RECURSIVE Split(_, _)
Split(s, c) ==
    IF Contains(s, c)
    THEN <<SubSeq(s, 1, IndexOf(s, c) - 1)>>
         \o Split(SubSeq(s, IndexOf(s, c) + 1, Len(s)), c)
    ELSE <<s>>

\* str.join over pieces.
RECURSIVE Join(_, _)
Join(pieces, sep) ==
    IF pieces = <<>> THEN <<>>
    ELSE IF Len(pieces) = 1 THEN pieces[1]
    ELSE pieces[1] \o sep \o Join(Tail(pieces), sep)

AllDigits(s) == s # <<>> /\ \A i \in 1..Len(s) : s[i] \in DigitSet

RECURSIVE DigitsToNat(_)
DigitsToNat(s) ==
    IF s = <<>> THEN 0
    ELSE 10 * DigitsToNat(SubSeq(s, 1, Len(s) - 1)) + DigitVal(s[Len(s)])

RECURSIVE NatToDigits(_)
NatToDigits(n) ==
    IF n < 10 THEN <<Digits[n + 1]>>
    ELSE NatToDigits(n \div 10) \o <<Digits[(n % 10) + 1]>>

Abs(n) == IF n < 0 THEN -n ELSE n

HasSign(s) == s # <<>> /\ Head(s) \in {"-", "+"}

Unsigned(s) == IF HasSign(s) THEN Tail(s) ELSE s

Signed(s, n) == IF HasSign(s) /\ Head(s) = "-" THEN -n ELSE n

\* -------------------------------------------------------------- values

\* A Python value of the option dictionary: None, an int, a float, a str or
\* a list of ints.  A float is n * 10^e with n not a multiple of 10 (0 is
\* n = 0, e = 0): the decimal numbers of a few digits, which repr() and
\* str() print exactly.
NoneV == [t |-> "none", n |-> 0, e |-> 0, s |-> <<>>, l |-> <<>>]

IntV(i) == [t |-> "int", n |-> i, e |-> 0, s |-> <<>>, l |-> <<>>]

RECURSIVE Normalise(_, _)
Normalise(m, x) ==
    IF m = 0 THEN <<0, 0>>
    ELSE IF m % 10 = 0 THEN Normalise(m \div 10, x + 1)
    ELSE <<m, x>>

RealV(m, x) ==
    [t |-> "real", n |-> Normalise(m, x)[1], e |-> Normalise(m, x)[2],
     s |-> <<>>, l |-> <<>>]

StrV(text) == [t |-> "str", n |-> 0, e |-> 0, s |-> text, l |-> <<>>]

ListV(ints) == [t |-> "list", n |-> 0, e |-> 0, s |-> <<>>, l |-> ints]

\* An attribute that was never assigned (reading it raises AttributeError),
\* and a dictionary key that is not there.
Unset == [t |-> "unset", n |-> 0, e |-> 0, s |-> <<>>, l |-> <<>>]

\* int(text): surrounding whitespace is dropped, one sign is allowed, the
\* rest must be decimal digits.
IntParse(text) ==
    LET u == Strip(text)
        d == Unsigned(u)
    IN  IF AllDigits(d)
        THEN [ok |-> TRUE, v |-> IntV(Signed(u, DigitsToNat(d)))]
        ELSE [ok |-> FALSE, v |-> NoneV]

\* float(text): [sign] digits [. digits] [e [sign] digits], at least one
\* digit in the mantissa, surrounding whitespace dropped.
FloatParse(text) ==
    LET u == Strip(text)
        body == Unsigned(u)
        parts == Split(body, "e")
        mant == Split(parts[1], ".")
        ip == mant[1]
        fp == IF Len(mant) = 2 THEN mant[2] ELSE <<>>
        expo == IF Len(parts) = 2 THEN parts[2] ELSE <<"0">>
        wellformed ==
            /\ Len(parts) <= 2
            /\ Len(mant) <= 2
            /\ ip \o fp # <<>>
            /\ \A i \in 1..Len(ip \o fp) : (ip \o fp)[i] \in DigitSet
            /\ AllDigits(Unsigned(expo))
    IN  IF wellformed
        THEN [ok |-> TRUE,
              v |-> RealV(Signed(u, DigitsToNat(ip \o fp)),
                          Signed(expo, DigitsToNat(Unsigned(expo))) - Len(fp))]
        ELSE [ok |-> FALSE, v |-> NoneV]

\* "{0}".format(i) of an int.
FormatInt(i) == (IF i < 0 THEN <<"-">> ELSE <<>>) \o NatToDigits(Abs(i))

\* "{0}".format(x) of a float is str(x): "%.12g", with ".0" added when the
\* result would read as an int.  With d the digits of n and p = Len(d) + e
\* the position of the decimal point, the exponent form is used when the
\* first digit's exponent p - 1 is below -4 or at least 12.
FormatReal(m, x) ==
    LET d == NatToDigits(Abs(m))
        k == Len(d)
        p == k + x
        sign == IF m < 0 THEN <<"-">> ELSE <<>>
        ex == NatToDigits(Abs(p - 1))
        fixed ==
            IF x >= 0 THEN d \o Repeat(x, "0") \o <<".", "0">>
            ELSE IF p > 0 THEN SubSeq(d, 1, p) \o <<".">> \o SubSeq(d, p + 1, k)
            ELSE <<"0", ".">> \o Repeat(-p, "0") \o d
        expform ==
            <<d[1]>> \o (IF k > 1 THEN <<".">> \o SubSeq(d, 2, k) ELSE <<>>)
            \o <<"e">> \o (IF p - 1 < 0 THEN <<"-">> ELSE <<"+">>)
            \o (IF Len(ex) < 2 THEN <<"0">> ELSE <<>>) \o ex
    IN  IF m = 0 THEN <<"0", ".", "0">>
        ELSE sign \o (IF p - 1 < -4 \/ p - 1 >= 12 THEN expform ELSE fixed)

\* "{0}".format(v) of any scalar value.
Format(v) ==
    CASE v.t = "none" -> <<"None">>
      [] v.t = "int" -> FormatInt(v.n)
      [] v.t = "real" -> FormatReal(v.n, v.e)
      [] OTHER -> v.s

\* -------------------------------------------------------------- bounds

\* The longest sequence of core lines handed to read_ctl_file as a file.
MaxLines == 2

\* The number of direct assignments to an option in one run.
MaxSets == 1

\* The longest results report handed to read(), in landmark lines.
MaxReport == 3

\* ------------------------------------------------------- Codeml state

VARIABLES
    options,        \* self._options
    alignment,      \* self.alignment
    tree,           \* self.tree
    out_file,       \* self.out_file
    rel_alignment,  \* self._rel_alignment
    rel_out_file,   \* self._rel_out_file
    rel_tree,       \* self._rel_tree
    ctl,            \* the file named self.ctl_file ("codeml.ctl") on disk
    err,            \* the last call: its name, its outcome, its input
    out,            \* what the last call printed
    nset,           \* direct assignments made so far
    results,        \* the dictionary read() built in its last call
    calls,          \* the extraction steps read() ran in its last call
    report          \* the report handed to read() in its last call

vars ==
    <<options, alignment, tree, out_file, rel_alignment, rel_out_file,
      rel_tree, ctl, err, out, nset, results, calls, report>>

codemlVars ==
    <<options, alignment, tree, out_file, rel_alignment, rel_out_file,
      rel_tree, ctl, out, nset>>

resultVars == <<results, calls, report>>

\* The keys of self._options, in the order of the dictionary display.  The
\* order in which items() yields them is the interpreter's; this order
\* stands for it, and no property below depends on it.
OptionOrder ==
    <<"noisy", "verbose", "runmode", "seqtype", "CodonFreq", "ndata",
      "clock", "aaDist", "aaRatefile", "model", "NSsites", "icode",
      "Mgene", "fix_kappa", "kappa", "fix_omega", "omega", "fix_alpha",
      "alpha", "Malpha", "ncatG", "getSE", "RateAncestor", "Small_Diff",
      "cleandata", "fix_blength", "method">>

Keys == {OptionOrder[i] : i \in 1..Len(OptionOrder)}

\* The values __init__ gives the options.
Defaults ==
    [k \in Keys |->
        CASE k \in {"verbose", "fix_alpha", "RateAncestor", "cleandata"} -> IntV(1)
          [] k \in {"seqtype", "CodonFreq", "model", "kappa"} -> IntV(2)
          [] k = "noisy" -> IntV(9)
          [] k = "ncatG" -> IntV(8)
          [] k \in {"ndata", "fix_blength"} -> NoneV
          [] k = "aaRatefile" -> StrV(<<"dat/jones", ".", "dat">>)
          [] k = "NSsites" -> ListV(<<0>>)
          [] k = "omega" -> RealV(4, -1)
          [] k = "Small_Diff" -> RealV(5, -7)
          [] OTHER -> IntV(0)]

\* The text of a key in a control file, and of the three path keys.
KeyText(k) == <<k>>

PathKeys == {"seqfile", "treefile", "outfile"}

\* A call's record: op is the method, kind "ok" or the exception raised,
\* arg the text the exception carries, file the lines read_ctl_file read.
Outcome(op, kind, arg, file) ==
    [op |-> op, kind |-> kind, arg |-> arg, file |-> file]

\* A dictionary with no key, and d with d[k] = v.
EmptyDict == [x \in {} |-> NoneV]

Put(d, k, v) == [x \in DOMAIN d \cup {k} |-> IF x = k THEN v ELSE d[x]]

NoFile == [exists |-> FALSE, lines |-> <<>>]

FileOf(lines) == [exists |-> TRUE, lines |-> lines]

\* Codeml.__init__: the caller passes the alignment and output paths or
\* neither, and the tree path or not (files that exist); the options get
\* their defaults; no relative path exists yet and nothing was written.
Init ==
    /\ options = Defaults
    /\ \E given \in BOOLEAN :
          /\ alignment = IF given THEN StrV(<<"a">>) ELSE NoneV
          /\ out_file = IF given THEN StrV(<<"o">>) ELSE NoneV
    /\ tree \in {NoneV, StrV(<<"t">>)}
    /\ rel_alignment = Unset
    /\ rel_out_file = Unset
    /\ rel_tree = Unset
    /\ ctl = NoFile
    /\ err = Outcome("init", "ok", <<>>, <<>>)
    /\ out = <<>>
    /\ nset = 0
    /\ results = EmptyDict
    /\ calls = <<>>
    /\ report = NoFile

\* ----------------------------------------------------- _set_rel_paths

\* os.path.relpath(path, self.working_dir) for a file name in the working
\* directory: the name itself; the empty path raises ValueError.
RelpathFails(path) == path.s = <<>>

Relpath(path) == StrV(path.s)

\* Paml._set_rel_paths: the alignment and output paths made relative.  A
\* path that is missing or cannot be resolved fails the step, which then
\* leaves no relative path changed.
PamlSetRelPaths(al, of, ra, ro) ==
    IF al.t = "none" \/ of.t = "none"
    THEN [kind |-> "PathError", ra |-> ra, ro |-> ro]
    ELSE IF RelpathFails(al) \/ RelpathFails(of)
    THEN [kind |-> "ValueError", ra |-> ra, ro |-> ro]
    ELSE [kind |-> "ok", ra |-> Relpath(al), ro |-> Relpath(of)]

\* Whether Codeml._set_rel_paths assigns self._rel_tree.
TreeGiven(tr) == tr.t # "none"

\* Codeml._set_rel_paths: Paml's step, then the tree path when there is
\* one; with self.tree None, self._rel_tree is left as it is.
SetRelPaths(al, of, tr, ra, ro, rt) ==
    LET base == PamlSetRelPaths(al, of, ra, ro)
    IN  IF base.kind # "ok"
        THEN [kind |-> base.kind, ra |-> ra, ro |-> ro, rt |-> rt]
        ELSE IF ~TreeGiven(tr)
        THEN [kind |-> "ok", ra |-> base.ra, ro |-> base.ro, rt |-> rt]
        ELSE IF RelpathFails(tr)
        THEN [kind |-> "ValueError", ra |-> base.ra, ro |-> base.ro, rt |-> rt]
        ELSE [kind |-> "ok", ra |-> base.ra, ro |-> base.ro, rt |-> Relpath(tr)]

\* ----------------------------------------------------- write_ctl_file

\* "{0} = {1}\n".format(key, text), without the line end.
CtlLine(key, text) == KeyText(key) \o <<" ", "=", " ">> \o text

\* " ".join(["{0}".format(site) for site in sites])
SitesText(sites) ==
    Join([i \in 1..Len(sites) |-> FormatInt(sites[i])], <<" ">>)

\* Skipped as "if not option[1]" would have it: every falsy value skipped.
SkippedFalsy(v) ==
    \/ v.t = "none"
    \/ v.t = "int" /\ v.n = 0
    \/ v.t = "real" /\ v.n = 0
    \/ v.t = "str" /\ v.s = <<>>
    \/ v.t = "list" /\ v.l = <<>>

\* Whether the loop of write_ctl_file skips an option (option[1] == None).
Skipped(v) == v.t = "none"

\* The line written for one option.
OptionLine(k, v) ==
    IF k = "NSsites" THEN CtlLine(k, SitesText(v.l)) ELSE CtlLine(k, Format(v))

\* The loop over self._options.items(): one line for each option that is
\* not skipped.
RECURSIVE OptionLines(_, _)
OptionLines(opts, order) ==
    IF order = <<>> THEN <<>>
    ELSE (IF Skipped(opts[Head(order)])
          THEN <<>>
          ELSE <<OptionLine(Head(order), opts[Head(order)])>>)
         \o OptionLines(opts, Tail(order))

\* The two lines written before self._rel_tree is read.
HeadLines(ra, ro) ==
    <<<<"seqfile", " ", "=", " ">> \o ra.s, <<"outfile", " ", "=", " ">> \o ro.s>>

TreeLine(rt) == <<"treefile", " ", "=", " ">> \o rt.s

\* write_ctl_file: the relative paths are set; an error of that step is
\* raised again.  Then the file is opened for writing, which empties it;
\* the lines are written in order; reading self._rel_tree raises
\* AttributeError when it was never assigned, after the first two lines.
WriteCtl ==
    \E r \in {SetRelPaths(alignment, out_file, tree,
                          rel_alignment, rel_out_file, rel_tree)} :
        /\ rel_alignment' = r.ra
        /\ rel_out_file' = r.ro
        /\ rel_tree' = r.rt
        /\ IF r.kind # "ok"
           THEN /\ ctl' = ctl
                /\ err' = Outcome("write", r.kind, <<>>, <<>>)
           ELSE IF r.rt.t = "unset"
           THEN /\ ctl' = FileOf(HeadLines(r.ra, r.ro))
                /\ err' = Outcome("write", "AttributeError", <<"_rel_tree">>, <<>>)
           ELSE /\ ctl' = FileOf(HeadLines(r.ra, r.ro) \o <<TreeLine(r.rt)>>
                                 \o OptionLines(options, OptionOrder))
                /\ err' = Outcome("write", "ok", <<>>, <<>>)
        /\ out' = <<>>
        /\ UNCHANGED <<options, alignment, tree, out_file, nset, resultVars>>

\* ------------------------------------------------------ read_ctl_file

\* The state of one read_ctl_file call between lines: temp_options (a
\* dictionary from key text to value), the three path attributes, and the
\* exception raised so far ("ok": none) with the text it carries.
ReadState(temp, al, tr, of, kind, arg) ==
    [temp |-> temp, al |-> al, tr |-> tr, of |-> of, kind |-> kind, arg |-> arg]

Raise(st, kind, arg) == ReadState(st.temp, st.al, st.tr, st.of, kind, arg)

\* KnownOption without the test: every key text passes.
KnownOptionAny(option, opts) == TRUE

\* "option not in self._options" is false: the text is a key of the options.
KnownOption(option, opts) == \E k \in DOMAIN opts : KeyText(k) = option

\* value.split(" "): the site classes as written.
SiteTokens(value) == Split(value, " ")

\* The first token int() rejects, 0 when it accepts them all.
FirstBadToken(tokens) ==
    IF \E i \in 1..Len(tokens) : ~IntParse(tokens[i]).ok
    THEN CHOOSE i \in 1..Len(tokens) :
            /\ ~IntParse(tokens[i]).ok
            /\ \A j \in 1..(i - 1) : IntParse(tokens[j]).ok
    ELSE 0

\* The conversion of a scalar value: float() when the text holds a ".",
\* int() otherwise, and the text itself when the conversion fails.
Convert(value) ==
    IF Contains(value, ".")
    THEN (IF FloatParse(value).ok THEN FloatParse(value).v ELSE StrV(value))
    ELSE (IF IntParse(value).ok THEN IntParse(value).v ELSE StrV(value))

\* The branches of the loop body for a line split into option and value.
Dispatch(st, option, value, opts) ==
    IF option = <<"seqfile">>
    THEN ReadState(st.temp, StrV(value), st.tr, st.of, "ok", <<>>)
    ELSE IF option = <<"treefile">>
    THEN ReadState(st.temp, st.al, StrV(value), st.of, "ok", <<>>)
    ELSE IF option = <<"outfile">>
    THEN ReadState(st.temp, st.al, st.tr, StrV(value), "ok", <<>>)
    ELSE IF option = <<"NSsites">>
    THEN LET tokens == SiteTokens(value)
             bad == FirstBadToken(tokens)
         IN  IF bad # 0
             THEN Raise(st, "TypeError", tokens[bad])
             ELSE ReadState(
                    Put(st.temp, option,
                        ListV([i \in 1..Len(tokens) |-> IntParse(tokens[i]).v.n])),
                    st.al, st.tr, st.of, "ok", <<>>)
    ELSE IF ~KnownOption(option, opts)
    THEN Raise(st, "KeyError", option)
    ELSE ReadState(Put(st.temp, option, Convert(value)),
                   st.al, st.tr, st.of, "ok", <<>>)

\* Whether the code takes a line without "=" for malformed.
LacksSeparator(uncommented) == ~Contains(uncommented, "=")

\* The loop body for one line of the file: the line is stripped, the
\* comment cut off; what is left, unless empty, must hold a "=" and is
\* split at every "=" into exactly two pieces (the unpacking of any other
\* number of pieces raises ValueError, which carries no line).
ProcessLine(st, raw, opts) ==
    LET line == Strip(raw)
        uncommented == PartitionHead(line, "*")
        pieces == Split(uncommented, "=")
    IN  IF uncommented = <<>> THEN st
        ELSE IF LacksSeparator(uncommented)
        THEN Raise(st, "AttributeError", line)
        ELSE IF Len(pieces) # 2
        THEN Raise(st, "ValueError", <<>>)
        ELSE Dispatch(st, Strip(pieces[1]), Strip(pieces[2]), opts)

\* The loop over the lines: it ends at the first exception.
RECURSIVE ReadLines(_, _, _)
ReadLines(st, lines, opts) ==
    IF lines = <<>> \/ st.kind # "ok" THEN st
    ELSE ReadLines(ProcessLine(st, Head(lines), opts), Tail(lines), opts)

\* Missing as a merge would have it: the key keeps its value.
MissingKeepsOld(old) == old

\* The value the closing loop gives key k when temp_options lacks it.
Missing(old) == NoneV

\* The closing loop over self._options.keys().
Replace(opts, temp) ==
    [k \in DOMAIN opts |->
        IF KeyText(k) \in DOMAIN temp THEN temp[KeyText(k)] ELSE Missing(opts[k])]

\* read_ctl_file(ctl_file) on a file with the given lines.  The path
\* attributes are assigned while the lines are read; the options are
\* replaced only after the last line, so not when a line raised.
ReadCtlLines(lines) ==
    \E r \in {ReadLines(ReadState(EmptyDict, alignment, tree, out_file, "ok", <<>>),
                        lines, options)} :
        /\ alignment' = r.al
        /\ tree' = r.tr
        /\ out_file' = r.of
        /\ options' = IF r.kind = "ok" THEN Replace(options, r.temp) ELSE options
        /\ err' = Outcome("read", r.kind, r.arg, lines)
        /\ out' = <<>>
        /\ UNCHANGED <<rel_alignment, rel_out_file, rel_tree, ctl, nset, resultVars>>

\* read_ctl_file(self.ctl_file): the file write_ctl_file wrote; open()
\* raises IOError when there is none.
ReadOwnCtl ==
    IF ctl.exists
    THEN ReadCtlLines(ctl.lines)
    ELSE /\ err' = Outcome("read", "IOError", <<>>, <<>>)
         /\ out' = <<>>
         /\ UNCHANGED <<options, alignment, tree, out_file, rel_alignment,
                        rel_out_file, rel_tree, ctl, nset, resultVars>>

\* ------------------------------------------------------ print_options

\* The lines print_options prints for the options in order, up to the
\* option that raises: joining the sites of NSsites raises TypeError when
\* the value is None.
RECURSIVE PrintLines(_, _)
PrintLines(opts, order) ==
    IF order = <<>> THEN [kind |-> "ok", lines |-> <<>>]
    ELSE LET k == Head(order)
             rest == PrintLines(opts, Tail(order))
         IN  IF k = "NSsites"
             THEN (IF opts[k].t = "none"
                   THEN [kind |-> "TypeError", lines |-> <<>>]
                   ELSE [kind |-> rest.kind,
                         lines |-> <<CtlLine(k, SitesText(opts[k].l))>> \o rest.lines])
             ELSE [kind |-> rest.kind,
                   lines |-> <<CtlLine(k, Format(opts[k]))>> \o rest.lines]

PrintOptions ==
    \E r \in {PrintLines(options, OptionOrder)} :
        /\ out' = r.lines
        /\ err' = Outcome("print", r.kind, <<>>, <<>>)
        /\ UNCHANGED <<options, alignment, tree, out_file, rel_alignment,
                       rel_out_file, rel_tree, ctl, nset, resultVars>>

\* ------------------------------------------------- direct assignment

\* cml.tree = value, by the caller.
SetTree(v) ==
    /\ tree' = v
    /\ err' = Outcome("set", "ok", <<>>, <<>>)
    /\ out' = <<>>
    /\ UNCHANGED <<options, alignment, out_file, rel_alignment, rel_out_file,
                   rel_tree, ctl, nset, resultVars>>

\* The Option Model's set(key, value): an unknown key is refused, a known
\* one takes the value as given.
SetOption(k, v) ==
    /\ nset < MaxSets
    /\ nset' = nset + 1
    /\ IF k \in DOMAIN options
       THEN /\ options' = [options EXCEPT ![k] = v]
            /\ err' = Outcome("set", "ok", <<>>, <<>>)
       ELSE /\ options' = options
            /\ err' = Outcome("set", "KeyError", KeyText(k), <<>>)
    /\ out' = <<>>
    /\ UNCHANGED <<alignment, tree, out_file, rel_alignment, rel_out_file,
                   rel_tree, ctl, resultVars>>

\* ------------------------------------------------------------- read()

\* A report is a sequence of lines, each named by the landmark it holds:
\* "lnL" a line of the summary, "model" the head of one site-class model
\* block, "pairwise" a line of the pairwise comparison, "distances" a line
\* of the distance matrix, "text" anything else.
Landmarks == {"lnL", "model", "pairwise", "distances", "text"}

Count(lines, mark) == Cardinality({i \in 1..Len(lines) : lines[i] = mark})

\* A step of read(): the dictionary so far and the steps run so far.
Step(res, trace, name) == [res |-> res, trace |-> Append(trace, name)]

\* _parse_codeml.parse_basics: the summary fields, when the report has
\* any; it returns the number of site-class model blocks in the report.
ParseBasics(lines, st) ==
    [st |-> Step(IF Count(lines, "lnL") > 0
                 THEN Put(st.res, "lnL", IntV(Count(lines, "lnL")))
                 ELSE st.res,
                 st.trace, "parse_basics"),
     multi_models |-> Count(lines, "model")]

\* _parse_codeml.parse_nssites: one sub-record for each model block, in
\* report order.
ParseNssites(lines, st, multi_models) ==
    Step(IF multi_models > 0
         THEN Put(st.res, "NSsites", ListV([i \in 1..multi_models |-> i]))
         ELSE st.res,
         st.trace, "parse_nssites")

\* _parse_codeml.parse_pairwise.
ParsePairwise(lines, st) ==
    Step(IF Count(lines, "pairwise") > 0
         THEN Put(st.res, "pairwise", IntV(Count(lines, "pairwise")))
         ELSE st.res,
         st.trace, "parse_pairwise")

\* _parse_codeml.parse_distances.
ParseDistances(lines, st) ==
    Step(IF Count(lines, "distances") > 0
         THEN Put(st.res, "distances", IntV(Count(lines, "distances")))
         ELSE st.res,
         st.trace, "parse_distances")

\* The four steps of read() over the same lines, in its order.
Extract(lines) ==
    LET b == ParseBasics(lines, [res |-> EmptyDict, trace |-> <<>>])
        n == ParseNssites(lines, b.st, b.multi_models)
        p == ParsePairwise(lines, n)
    IN  ParseDistances(lines, p)

\* IsEmptyResult without the test: the dictionary is returned as it is.
IsEmptyResultNever(res) == FALSE

\* The test that ends read(): len(results) == 0 raises ValueError.
IsEmptyResult(res) == Cardinality(DOMAIN res) = 0

\* read(results_file): IOError when the file does not exist; otherwise the
\* four steps, and the dictionary unless it is empty.
ReadResults(rep) ==
    /\ report' = rep
    /\ IF ~rep.exists
       THEN /\ results' = EmptyDict
            /\ calls' = <<>>
            /\ err' = Outcome("results", "IOError", <<>>, <<>>)
       ELSE \E r \in {Extract(rep.lines)} :
                /\ results' = r.res
                /\ calls' = r.trace
                /\ err' = Outcome("results",
                                  IF IsEmptyResult(r.res) THEN "ValueError" ELSE "ok",
                                  <<>>, <<>>)
    /\ UNCHANGED codemlVars

\* ------------------------------------------------------------- inputs

RECURSIVE SeqsUpTo(_, _)
SeqsUpTo(S, n) ==
    IF n = 0 THEN {<<>>}
    ELSE SeqsUpTo(S, n - 1)
         \cup {Append(q, x) : q \in {r \in SeqsUpTo(S, n - 1) : Len(r) = n - 1}, x \in S}

\* Lines of control files.  Sequences of the core lines make the files of
\* every length; each edge line is read as a file of its own.
CoreLines ==
    { <<"model", " ", "=", " ", "2">>,
      <<"seqfile", " ", "=", " ", "b">>,
      <<"bogus", " ", "=", " ", "1">> }

EdgeLines ==
    { <<"model", " ", "2">>,
      <<"model", " ", "2", " ", "*", " ", "x", "=", "1">>,
      <<"model", " ", "=", " ", "2", " ", "=", " ", "3">>,
      <<"model", " ", "=", " ", "0">>,
      <<"model", " ", "=", " ", "2", ".", "x">>,
      <<"NSsites", " ", "=", " ", "0", " ", "1", " ", "2">>,
      <<"NSsites", " ", "=", " ", "0", " ", " ", "1">>,
      <<"NSsites", " ", "=", " ", "0", "\t", "1">>,
      <<"NSsites", " ", "=", " ", "0", " ", "x">>,
      <<"NSsites", " ", "=">>,
      <<"omega", " ", "=", " ", "0", ".", "4">>,
      <<"ndata", "=", "0", " ", "*", " ", "a", "=", "b">>,
      <<"Small_Diff", " ", "=", " ", "5", "e", "-", "0", "7">>,
      <<"treefile", " ", "=", " ">>,
      <<"treefile", " ", "=", " ", "u">>,
      <<" ", "*", " ", "note">>,
      <<" ", "\t">>,
      <<"=", " ", "1">> }

\* Files of two lines in which the second line meets what the first did.
ScenarioFiles ==
    { << <<"model", " ", "=", " ", "2">>, <<"model", " ", "=", " ", "0">> >>,
      << <<"seqfile", " ", "=", " ", "b">>, <<"model", " ", "2">> >>,
      << <<"treefile", " ", "=", " ", "u">>,
         <<"NSsites", " ", "=", " ", "0", " ", "x">> >>,
      << <<"NSsites", " ", "=", " ", "0", " ", "1", " ", "2">>,
         <<"omega", " ", "=", " ", "0", ".", "4">> >>,
      << <<"model", " ", "2">>, <<"bogus", " ", "=", " ", "1">> >>,
      << <<" ", "*", " ", "note">>, <<"model", " ", "=", " ", "2">> >> }

\* The control files handed to read_ctl_file.
InputFiles ==
    SeqsUpTo(CoreLines, MaxLines) \cup {<<x>> : x \in EdgeLines} \cup ScenarioFiles

\* The files of other origin read between writes.
ForeignFiles ==
    {<<x>> : x \in CoreLines}
    \cup { << <<"model", " ", "=", " ", "2">>, <<"bogus", " ", "=", " ", "1">> >> }

\* The values assigned to options directly.
SetInputs ==
    { <<"NSsites", ListV(<<>>)>>, <<"NSsites", ListV(<<0, 1, 2>>)>>,
      <<"NSsites", NoneV>>, <<"model", IntV(0)>>, <<"omega", RealV(15, 1)>>,
      <<"aaRatefile", StrV(<<>>)>>, <<"kappa", RealV(-25, -1)>>,
      <<"ndata", IntV(-3)>>, <<"bogus", IntV(1)>> }

Reports == {FileOf(q) : q \in SeqsUpTo(Landmarks, MaxReport)} \cup {NoFile}

\* ----------------------------------------------------- specifications

ReadCtl == \E f \in InputFiles : ReadCtlLines(f)

ReadForeign == \E f \in ForeignFiles : ReadCtlLines(f)

Assign == \E p \in SetInputs : SetOption(p[1], p[2])

AssignTree == \E v \in {NoneV, StrV(<<"t">>)} : SetTree(v)

Results == \E rep \in Reports : ReadResults(rep)

\* The codec: an instance written, read back, printed and assigned to.
Next ==
    \/ WriteCtl
    \/ ReadOwnCtl
    \/ ReadForeign
    \/ PrintOptions
    \/ Assign
    \/ AssignTree

Spec == Init /\ [][Next]_vars

\* The reader: an instance reading control files of every kind.
NextRead ==
    \/ ReadCtl
    \/ PrintOptions

SpecRead == Init /\ [][NextRead]_vars

\* The results reader.
NextResults == Results

SpecResults == Init /\ [][NextResults]_vars

\* ------------------------------------------------ reading a file's text

\* What the properties below say of a control file is said of its text,
\* line by line, not of the loop that reads it.

\* The text of a line that is left once the comment is cut off.
Uncommented(raw) == PartitionHead(Strip(raw), "*")

Blank(raw) == Uncommented(raw) = <<>>

EqCount(raw) ==
    Cardinality({i \in 1..Len(Uncommented(raw)) : Uncommented(raw)[i] = "="})

\* The key and the value of a line with a "=": the text on either side of
\* the first one, trimmed.
LineKey(raw) == Strip(PartitionHead(Uncommented(raw), "="))

LineValue(raw) ==
    Strip(SubSeq(Uncommented(raw), IndexOf(Uncommented(raw), "=") + 1,
                 Len(Uncommented(raw))))

PathTexts == {<<p>> : p \in PathKeys}

KeyTexts == {KeyText(k) : k \in Keys}

\* A line that assigns key text kt.
Assigns(raw, kt) == ~Blank(raw) /\ EqCount(raw) = 1 /\ LineKey(raw) = kt

\* A line that is blank, or assigns a path or a scalar option.
PlainLine(raw) ==
    \/ Blank(raw)
    \/ /\ EqCount(raw) = 1
       /\ LineKey(raw) \in (PathTexts \cup KeyTexts) \ {<<"NSsites">>}

\* Line i is reached with nothing raised before it.
ReachedPlainly(file, i) == \A j \in 1..(i - 1) : PlainLine(file[j])

\* A line whose key is no path key and no key of the fixed key set.
UnknownKeyLine(raw) ==
    /\ ~Blank(raw)
    /\ EqCount(raw) = 1
    /\ LineKey(raw) \notin PathTexts \cup KeyTexts

\* The last line of the file that assigns kt, 0 when none does.
LastAssigning(file, kt) ==
    IF \E i \in 1..Len(file) : Assigns(file[i], kt)
    THEN CHOOSE i \in 1..Len(file) :
            /\ Assigns(file[i], kt)
            /\ \A j \in (i + 1)..Len(file) : ~Assigns(file[j], kt)
    ELSE 0

\* The tokens of a text between runs of whitespace.
RECURSIVE WsTokens(_)
WsTokens(text) ==
    LET t == LStrip(text)
        n == IF \E i \in 1..Len(t) : t[i] \in Whitespace
             THEN (CHOOSE i \in 1..Len(t) :
                      t[i] \in Whitespace /\ \A j \in 1..(i - 1) : t[j] \notin Whitespace)
             ELSE Len(t) + 1
    IN  IF t = <<>> THEN <<>>
        ELSE <<SubSeq(t, 1, n - 1)>> \o WsTokens(SubSeq(t, n, Len(t)))

IsInteger(token) == AllDigits(Unsigned(token))

IntegerOf(token) == Signed(token, DigitsToNat(Unsigned(token)))

\* Equality of two option values as Python's == decides it: an int and a
\* float are equal when they are the same number.
Number(v) == IF v.t = "int" THEN Normalise(v.n, 0) ELSE <<v.n, v.e>>

ValueEq(v, w) ==
    IF v.t \in {"int", "real"} /\ w.t \in {"int", "real"}
    THEN Number(v) = Number(w)
    ELSE v = w

ReadDone == err.op = "read" /\ err.kind # "IOError"

ReadOk == err.op = "read" /\ err.kind = "ok"

WriteOk == err.op = "write" /\ err.kind = "ok"

\* ------------------------------------------------------------- claims

\* C1: round trip.  When write_ctl_file has succeeded and read_ctl_file
\* then reads the file just written, the read succeeds and every key holds
\* a value equal to the one it held before: a value that was not None is
\* equal to the original, a value that was None is None.
C1_RoundTrip ==
    [][(/\ WriteOk
        /\ err'.op = "read"
        /\ err'.file = ctl.lines)
       => (/\ err'.kind = "ok"
           /\ \A k \in Keys : ValueEq(options'[k], options[k]))]_vars

\* C2: reading replaces, it does not merge.  After a successful
\* read_ctl_file every key holds the value of the last line of that file
\* that assigns it, and None when no line of that file assigns it,
\* whatever the key held before.
C2_FullReplace ==
    ReadOk =>
        \A k \in Keys :
            LET i == LastAssigning(err.file, KeyText(k))
            IN  IF i = 0 THEN options[k] = NoneV
                ELSE IF k = "NSsites"
                THEN options[k] =
                        ListV([j \in 1..Len(WsTokens(LineValue(err.file[i]))) |->
                                  IntegerOf(WsTokens(LineValue(err.file[i]))[j])])
                ELSE options[k] = Convert(LineValue(err.file[i]))

\* C2 happens: a successful read of a file that assigns model and not
\* noisy, after which noisy, 9 since construction, is None.
C2_Witness ==
    /\ ReadOk
    /\ LastAssigning(err.file, <<"model">>) # 0
    /\ LastAssigning(err.file, <<"noisy">>) = 0
    /\ options["model"] = IntV(2)
    /\ options["noisy"] = NoneV

\* C3: the key set.  In every state the keys of the options are the keys
\* given at construction.  A read of a file with a line whose key is
\* neither a path key nor one of those keys does not succeed, and when
\* that line is reached with nothing raised before it the read fails with
\* KeyError naming the key.
C3_KeySet ==
    /\ DOMAIN options = Keys
    /\ ReadDone =>
          \A i \in 1..Len(err.file) :
              UnknownKeyLine(err.file[i]) =>
                  /\ err.kind # "ok"
                  /\ ReachedPlainly(err.file, i) =>
                        /\ err.kind = "KeyError"
                        /\ err.arg = LineKey(err.file[i])

\* C3 happens: a read that met the line "bogus = 1" after a line it
\* accepted, with a control file already written.
C3_Witness ==
    /\ ReadDone
    /\ Len(err.file) = 2
    /\ UnknownKeyLine(err.file[2])
    /\ err.arg = <<"bogus">>
    /\ ctl.exists

\* C4: a failed read changes nothing.  When read_ctl_file raises on a
\* line, no option and none of alignment, tree and out_file has changed.
C4_FailedReadChangesNothing ==
    [][(err'.op = "read" /\ err'.kind # "ok")
       => (/\ options' = options
           /\ alignment' = alignment
           /\ tree' = tree
           /\ out_file' = out_file)]_vars

\* C5: exactly one "=".  A line that is not blank once its comment is cut
\* off and does not hold exactly one "=", reached with nothing raised
\* before it, fails the read with the malformed-line error (AttributeError)
\* carrying the line; a file of blank lines only is read without error.
C5_ExactlyOneSeparator ==
    ReadDone =>
        /\ \A i \in 1..Len(err.file) :
              (/\ ~Blank(err.file[i])
               /\ EqCount(err.file[i]) # 1
               /\ ReachedPlainly(err.file, i))
              => (err.kind = "AttributeError" /\ err.arg = Strip(err.file[i]))
        /\ (\A i \in 1..Len(err.file) : Blank(err.file[i])) => err.kind = "ok"

\* C6: the site classes.  For a line assigning NSsites that is reached
\* with nothing raised before it, with its value cut into tokens (at least
\* one) at runs of whitespace: when a token is not an integer the read fails with
\* TypeError naming the first such token; when all are integers and the
\* line is the file's last, the read succeeds and NSsites is the list of
\* those integers.  A read fails with TypeError only if some NSsites line
\* has a token that is not an integer.
C6_SitesSplitOnWhitespace ==
    ReadDone =>
        /\ \A i \in 1..Len(err.file) :
              (/\ Assigns(err.file[i], <<"NSsites">>)
               /\ ReachedPlainly(err.file, i)
               /\ WsTokens(LineValue(err.file[i])) # <<>>)
              => LET tokens == WsTokens(LineValue(err.file[i]))
                     bad == {j \in 1..Len(tokens) : ~IsInteger(tokens[j])}
                 IN  IF bad # {}
                     THEN /\ err.kind = "TypeError"
                          /\ err.arg = tokens[CHOOSE j \in bad : \A m \in bad : j <= m]
                     ELSE i = Len(err.file) =>
                            /\ err.kind = "ok"
                            /\ options["NSsites"] =
                                 ListV([j \in 1..Len(tokens) |-> IntegerOf(tokens[j])])
        /\ err.kind = "TypeError" =>
              \E i \in 1..Len(err.file) :
                  /\ Assigns(err.file[i], <<"NSsites">>)
                  /\ \E j \in 1..Len(WsTokens(LineValue(err.file[i]))) :
                        ~IsInteger(WsTokens(LineValue(err.file[i]))[j])

\* C7: the file written.  After a successful write_ctl_file the file
\* starts with the seqfile, outfile and treefile lines, in that order,
\* holding the relative paths; after them comes exactly one line
\* "key = ..." for each key whose value is not None, 0 and the empty list
\* included, and no line for a key whose value is None.
C7_WrittenLines ==
    WriteOk =>
        /\ ctl.exists
        /\ Len(ctl.lines) = 3 + Cardinality({k \in Keys : options[k] # NoneV})
        /\ ctl.lines[1] = <<"seqfile", " ", "=", " ">> \o rel_alignment.s
        /\ ctl.lines[2] = <<"outfile", " ", "=", " ">> \o rel_out_file.s
        /\ ctl.lines[3] = <<"treefile", " ", "=", " ">> \o rel_tree.s
        /\ \A k \in Keys :
              Cardinality({i \in 4..Len(ctl.lines) :
                              /\ Len(ctl.lines[i]) >= 4
                              /\ SubSeq(ctl.lines[i], 1, 4) = <<k, " ", "=", " ">>})
              = IF options[k] = NoneV THEN 0 ELSE 1

\* C7 happens: a successful write of options among which one is None, one
\* is 0 and NSsites is the empty list.
C7_Witness ==
    /\ WriteOk
    /\ options["ndata"] = NoneV
    /\ options["clock"] = IntV(0)
    /\ options["NSsites"] = ListV(<<>>)
    /\ \E i \in 4..Len(ctl.lines) : ctl.lines[i] = <<"clock", " ", "=", " ", "0">>
    /\ \E i \in 4..Len(ctl.lines) : ctl.lines[i] = <<"NSsites", " ", "=", " ">>

\* C8: read() returns no empty document.  For a report that does not
\* exist it raises IOError and runs no step.  Otherwise it runs the four
\* steps in the order basics, site-class models, pairwise, distances, the
\* second with the number of model blocks the first returned; it raises
\* ValueError exactly when the report holds no line any step extracts,
\* and returns a document with at least one entry in every other case.
C8_NeverEmpty ==
    err.op = "results" =>
        IF ~report.exists
        THEN err.kind = "IOError" /\ calls = <<>>
        ELSE /\ calls = <<"parse_basics", "parse_nssites", "parse_pairwise",
                          "parse_distances">>
             /\ err.kind \in {"ok", "ValueError"}
             /\ err.kind = "ValueError"
                  <=> (\A i \in 1..Len(report.lines) : report.lines[i] = "text")
             /\ err.kind = "ok" => DOMAIN results # {}
             /\ "NSsites" \in DOMAIN results
                  => Len(results["NSsites"].l) = Count(report.lines, "model")

\* C8 happens: a report of which the distance step alone extracts
\* something is returned with that one entry.
C8_Witness ==
    /\ err.op = "results"
    /\ err.kind = "ok"
    /\ DOMAIN results = {"distances"}
    /\ Len(calls) = 4

\* C9: the tree path is checked before the file is opened.  A call of
\* write_ctl_file while self.tree is None fails and leaves the control
\* file as it was.
C9_TreeCheckedBeforeOpen ==
    [][(tree = NoneV /\ err'.op = "write")
       => (err'.kind # "ok" /\ ctl' = ctl)]_vars

\* C10: print_options reads only and always completes.  A call of
\* print_options raises nothing and leaves every option as it was.
C10_PrintCompletes ==
    [][err'.op = "print" => (err'.kind = "ok" /\ options' = options)]_vars

====
